---- MODULE Spec2Model ----
(***************************************************************************)
(* Model of the astro-electron-ts integration's 'astro:build:done' hook    *)
(* (templates/base/src/pages/index.astro, lines 230-429): the post-build   *)
(* rewrite of href/src/to attributes, hydrate markers and dynamic          *)
(* import() calls, and the concurrent per-route read/transform/write       *)
(* tasks joined by Promise.all; of the earlier base-path variant of that   *)
(* hook, which replaces '/astro-electron-ts' and '/public' and swallows    *)
(* the errors of its tasks; and of the scaffolding command line            *)
(* (bin/cli.ts and its modules, src/cli.ts), which creates a project or    *)
(* adds Electron to an existing one.                                       *)
(*                                                                         *)
(* Text is a sequence of one-character strings.  File-system paths are     *)
(* sequences of segments (strings); PathChars turns a path into text.      *)
(***************************************************************************)
EXTENDS Integers, Sequences, FiniteSets, TLC

(***************************************************************************)
(* Bounds of the model.                                                    *)
(***************************************************************************)
MaxDirs == 2
MaxRoutes == 2
MaxCalls == 2

(***************************************************************************)
(* Text helpers: JavaScript String methods used by the hook.               *)
(***************************************************************************)
StartsWith(s, p) ==
  /\ Len(s) >= Len(p)
  /\ SubSeq(s, 1, Len(p)) = p

EndsWith(s, p) ==
  /\ Len(s) >= Len(p)
  /\ SubSeq(s, Len(s) - Len(p) + 1, Len(s)) = p

StartsWithAt(s, i, p) ==
  /\ i >= 1
  /\ i + Len(p) - 1 <= Len(s)
  /\ SubSeq(s, i, i + Len(p) - 1) = p

Includes(s, p) == \E i \in 1..(Len(s) + 1) : StartsWithAt(s, i, p)

Slice(s, n) == SubSeq(s, n + 1, Len(s))

\* index of the first position >= i at which p starts, 0 when there is none
IndexFrom(s, i, p) ==
  LET hits == {k \in i..(Len(s) + 1) : StartsWithAt(s, k, p)}
  IN IF hits = {} THEN 0 ELSE CHOOSE k \in hits : \A m \in hits : k <= m

\* .replace(/^\/+/, '')
RECURSIVE StripLeadingSlashes(_)
StripLeadingSlashes(s) ==
  IF s # <<>> /\ Head(s) = "/" THEN StripLeadingSlashes(Tail(s)) ELSE s

\* variant: trailing slashes are kept
StripTrailingSlashesOff(s) == s

\* .replace(/\/+$/, '')
RECURSIVE StripTrailingSlashes(_)
StripTrailingSlashes(s) ==
  IF s # <<>> /\ s[Len(s)] = "/"
  THEN StripTrailingSlashes(SubSeq(s, 1, Len(s) - 1))
  ELSE s

(***************************************************************************)
(* Literals of the source.                                                 *)
(***************************************************************************)
Quote == "\""
Apos == "'"
QuoteChars == {Quote, Apos}
SpaceChars == {" "}

LowerChars == {"a","b","c","d","e","f","g","h","i","j","k","l","m",
               "n","o","p","q","r","s","t","u","v","w","x","y","z"}
UpperChars == {"A","B","C","D","E","F","G","H","I","J","K","L","M",
               "N","O","P","Q","R","S","T","U","V","W","X","Y","Z"}
DigitChars == {"0","1","2","3","4","5","6","7","8","9"}
\* \w of the regular expressions
WordChars == LowerChars \cup UpperChars \cup DigitChars \cup {"_"}

AstroDir == <<"_","a","s","t","r","o","/">>
RelAstroDir == <<".","/">> \o AstroDir
DotSlash == <<".","/">>
DotDotSlash == <<".",".","/">>
HashSlash == <<"#","/">>
SlashHashSlash == <<"/","#","/">>
DotHtml == <<".","h","t","m","l">>
IndexHtml == <<"i","n","d","e","x">> \o DotHtml
FileScheme == <<"f","i","l","e",":","/","/">>
HydrateName == <<"h","y","d","r","a","t","e">>
HrefName == <<"h","r","e","f">>
SrcName == <<"s","r","c">>
ToName == <<"t","o">>
ImportName == <<"i","m","p","o","r","t">>
RouterWord == <<"r","o","u","t","e","r">>

\* /\.(js|css|png|jpg|jpeg|gif|svg|ico)$/
AssetExtensions ==
  { <<"j","s">>, <<"c","s","s">>, <<"p","n","g">>, <<"j","p","g">>,
    <<"j","p","e","g">>, <<"g","i","f">>, <<"s","v","g">>, <<"i","c","o">> }

\* variant: script files are not in the list of asset extensions
isAssetNoScripts(cleanPath) ==
  \E ext \in AssetExtensions \ {<<"j","s">>} :
    EndsWith(cleanPath, <<".">> \o ext)

isAsset(cleanPath) ==
  \E ext \in AssetExtensions : EndsWith(cleanPath, <<".">> \o ext)

hashRoutingPatterns ==
  { <<"c","r","e","a","t","e","H","a","s","h","R","o","u","t","e","r">>,
    <<"c","r","e","a","t","e","W","e","b","H","a","s","h",
      "H","i","s","t","o","r","y">>,
    <<"H","a","s","h","R","o","u","t","e","r">>,
    <<"u","s","e","H","a","s","h","R","o","u","t","e","r">>,
    <<"m","o","d","e",":"," ",Quote,"h","a","s","h",Quote>>,
    <<"t","y","p","e",":"," ",Quote,"h","a","s","h",Quote>> }

\* variant: only the path of the file is looked at
isHashRoutingByPath(content, filePath) == Includes(filePath, RouterWord)

isHashRoutingComponent(content, filePath) ==
  \/ Includes(filePath, RouterWord)
  \/ \E pattern \in hashRoutingPatterns : Includes(content, pattern)

(***************************************************************************)
(* First pass: /\bhydrate=["']([^"']+)["']/g                               *)
(***************************************************************************)
hydrateReplacer(hydratePath) ==
  LET cleanPath == StripLeadingSlashes(hydratePath)
  IN IF StartsWith(cleanPath, AstroDir)
     THEN HydrateName \o <<"=", Quote>> \o RelAstroDir
            \o Slice(cleanPath, 6) \o <<Quote>>
     ELSE HydrateName \o <<"=", Quote>> \o RelAstroDir
            \o cleanPath \o <<Quote>>

\* length of the longest run of non-quote characters starting at i
RECURSIVE NonQuoteRun(_, _)
NonQuoteRun(s, i) ==
  IF i <= Len(s) /\ s[i] \notin QuoteChars
  THEN 1 + NonQuoteRun(s, i + 1)
  ELSE 0

\* end position of a match of the hydrate pattern starting at i, 0 if none
HydrateMatchEnd(s, i) ==
  LET v == i + Len(HydrateName) + 2
      n == NonQuoteRun(s, v)
  IN IF /\ (i = 1 \/ s[i - 1] \notin WordChars)
        /\ StartsWithAt(s, i, HydrateName \o <<"=">>)
        /\ v - 1 <= Len(s)
        /\ s[v - 1] \in QuoteChars
        /\ n >= 1
        /\ v + n <= Len(s)
     THEN v + n
     ELSE 0

RECURSIVE HydratePassFrom(_, _)
HydratePassFrom(s, i) ==
  IF i > Len(s) THEN <<>>
  ELSE LET e == HydrateMatchEnd(s, i)
       IN IF e = 0
          THEN <<s[i]>> \o HydratePassFrom(s, i + 1)
          ELSE hydrateReplacer(SubSeq(s, i + Len(HydrateName) + 2, e - 1))
                 \o HydratePassFrom(s, e + 1)

HydratePass(file) == HydratePassFrom(file, 1)

(***************************************************************************)
(* Second pass:                                                            *)
(*   /(href|src|to)="([^"]*?)"|import\s*\(['"](.*?)['"]\)/g                *)
(***************************************************************************)
AttrNames == {HrefName, SrcName, ToName}

\* the replacer's branch for a dynamic import (importPath is non-empty)
importReplacer(match, importPath) ==
  LET cleanImportPath == StripLeadingSlashes(importPath)
      open == ImportName \o <<"(", Quote>>
      close == <<Quote, ")">>
  IN IF \/ StartsWith(cleanImportPath, DotSlash)
        \/ StartsWith(cleanImportPath, DotDotSlash)
     THEN match
     ELSE IF StartsWith(cleanImportPath, AstroDir)
     THEN open \o RelAstroDir \o Slice(cleanImportPath, 6) \o close
     ELSE open \o RelAstroDir \o cleanImportPath \o close

\* variant: the hash-routing flag is looked at before the asset rules
attrReplacerHashFirst(match, attr, pathname, isHashRouting, distPath) ==
  LET cleanPath == StripLeadingSlashes(pathname)
      routePath == StripTrailingSlashes(cleanPath)
      Attr(v) == attr \o <<"=", Quote>> \o v \o <<Quote>>
  IN IF pathname = <<>> THEN match
     ELSE IF \/ StartsWith(pathname, DotSlash)
             \/ StartsWith(pathname, DotDotSlash)
     THEN match
     ELSE IF isHashRouting
     THEN Attr(HashSlash \o routePath)
     ELSE IF StartsWith(cleanPath, AstroDir)
     THEN Attr(RelAstroDir \o Slice(cleanPath, 6))
     ELSE IF isAsset(cleanPath)
     THEN Attr(DotSlash \o cleanPath)
     ELSE Attr(FileScheme \o distPath \o <<"/">> \o cleanPath)

\* the replacer's branch for an href/src/to attribute
attrReplacer(match, attr, pathname, isHashRouting, distPath) ==
  LET cleanPath == StripLeadingSlashes(pathname)
      routePath == StripTrailingSlashes(cleanPath)
      targetPath == IF EndsWith(cleanPath, DotHtml)
                    THEN cleanPath
                    ELSE cleanPath \o <<"/">> \o IndexHtml
      Attr(v) == attr \o <<"=", Quote>> \o v \o <<Quote>>
  IN IF pathname = <<>> THEN match
     ELSE IF \/ StartsWith(pathname, DotSlash)
             \/ StartsWith(pathname, DotDotSlash)
     THEN match
     ELSE IF StartsWith(cleanPath, AstroDir)
     THEN Attr(RelAstroDir \o Slice(cleanPath, 6))
     ELSE IF isAsset(cleanPath)
     THEN Attr(DotSlash \o cleanPath)
     ELSE IF \/ StartsWith(pathname, SlashHashSlash)
             \/ StartsWith(pathname, HashSlash)
     THEN IF StartsWith(pathname, SlashHashSlash)
          THEN Attr(Slice(pathname, 1))
          ELSE match
     ELSE IF isHashRouting
     THEN Attr(HashSlash \o routePath)
     ELSE IF pathname = <<"/">>
     THEN Attr(FileScheme \o distPath \o <<"/">> \o IndexHtml)
     ELSE Attr(FileScheme \o distPath \o <<"/">> \o targetPath)

\* the attribute name matched at i, <<>> if the first alternative fails
AttrNameAt(s, i) ==
  IF \E a \in AttrNames :
       /\ StartsWithAt(s, i, a \o <<"=", Quote>>)
       /\ IndexFrom(s, i + Len(a) + 2, <<Quote>>) # 0
  THEN CHOOSE a \in AttrNames : StartsWithAt(s, i, a \o <<"=", Quote>>)
  ELSE <<>>

\* number of whitespace characters starting at i
RECURSIVE SpaceRun(_, _)
SpaceRun(s, i) ==
  IF i <= Len(s) /\ s[i] \in SpaceChars THEN 1 + SpaceRun(s, i + 1) ELSE 0

\* position of the first character of the import specifier of a match of the
\* second alternative starting at i, 0 if there is none
ImportValueStart(s, i) ==
  LET p == i + Len(ImportName) + SpaceRun(s, i + Len(ImportName))
  IN IF /\ StartsWithAt(s, i, ImportName)
        /\ p + 1 <= Len(s)
        /\ s[p] = "("
        /\ s[p + 1] \in QuoteChars
     THEN p + 2
     ELSE 0

\* position of the quote that closes the lazy (.*?) started at v, 0 if none
ImportValueEnd(s, v) ==
  LET hits == {k \in v..(Len(s) - 1) :
                 s[k] \in QuoteChars /\ s[k + 1] = ")"}
  IN IF hits = {} THEN 0 ELSE CHOOSE k \in hits : \A m \in hits : k <= m

RECURSIVE LinkPassFrom(_, _, _, _)
LinkPassFrom(s, i, isHashRouting, distPath) ==
  IF i > Len(s) THEN <<>>
  ELSE
    LET a == AttrNameAt(s, i)
        v == ImportValueStart(s, i)
        e == IF v = 0 THEN 0 ELSE ImportValueEnd(s, v)
    IN IF a # <<>>
       THEN LET b == i + Len(a) + 2
                q == IndexFrom(s, b, <<Quote>>)
            IN attrReplacer(SubSeq(s, i, q), a, SubSeq(s, b, q - 1),
                            isHashRouting, distPath)
                 \o LinkPassFrom(s, q + 1, isHashRouting, distPath)
       ELSE IF e # 0
       THEN (IF e > v
             THEN importReplacer(SubSeq(s, i, e + 1), SubSeq(s, v, e - 1))
             ELSE SubSeq(s, i, e + 1))
              \o LinkPassFrom(s, e + 2, isHashRouting, distPath)
       ELSE <<s[i]>> \o LinkPassFrom(s, i + 1, isHashRouting, distPath)

LinkPass(content, isHashRouting, distPath) ==
  LinkPassFrom(content, 1, isHashRouting, distPath)

(***************************************************************************)
(* Third pass: .replace(/(['"])\/\.?\/_astro\//g, '$1./_astro/')           *)
(***************************************************************************)
\* end position of a match of the cleanup pattern starting at i, 0 if none
CleanupMatchEnd(s, i) ==
  IF s[i] \notin QuoteChars THEN 0
  ELSE IF StartsWithAt(s, i + 1, <<"/", ".", "/">> \o AstroDir)
  THEN i + 3 + Len(AstroDir)
  ELSE IF StartsWithAt(s, i + 1, <<"/", "/">> \o AstroDir)
  THEN i + 2 + Len(AstroDir)
  ELSE 0

RECURSIVE CleanupPassFrom(_, _)
CleanupPassFrom(s, i) ==
  IF i > Len(s) THEN <<>>
  ELSE LET e == CleanupMatchEnd(s, i)
       IN IF e = 0
          THEN <<s[i]>> \o CleanupPassFrom(s, i + 1)
          ELSE <<s[i]>> \o RelAstroDir \o CleanupPassFrom(s, e + 1)

CleanupPass(content) == CleanupPassFrom(content, 1)

(***************************************************************************)
(* The transform of one file (source lines 323-417).                       *)
(***************************************************************************)
updatedContent(file, normalizedPath, distPath) ==
  LET isHashRouting == isHashRoutingComponent(file, normalizedPath)
  IN CleanupPass(LinkPass(HydratePass(file), isHashRouting, distPath))

(***************************************************************************)
(* Paths.  A path string is modelled by a record: abs is TRUE when the     *)
(* string starts with a slash, segs are its segments (each a text), sep is *)
(* the separator it is written with.  A file of the file system is named   *)
(* by its resolved absolute path, a sequence of segments (on win32 the     *)
(* first one is the drive).                                                *)
(***************************************************************************)
Platforms == {"posix", "win32"}
Backslash == "\\"
NativeSep(platform) == IF platform = "win32" THEN Backslash ELSE "/"

DotDot == <<".", ".">>
Dot == <<".">>

\* [A-Za-z]: at the start of a path
IsDrive(seg) ==
  /\ Len(seg) = 2
  /\ seg[1] \in LowerChars \cup UpperChars
  /\ seg[2] = ":"

RECURSIVE Join(_, _)
Join(segs, sep) ==
  IF segs = <<>> THEN <<>>
  ELSE IF Len(segs) = 1 THEN segs[1]
  ELSE segs[1] \o <<sep>> \o Join(Tail(segs), sep)

\* the text of a path
PathChars(p) == (IF p.abs THEN <<p.sep>> ELSE <<>>) \o Join(p.segs, p.sep)

\* removal of "." and ".." segments, as path.resolve / path.join do
RECURSIVE NormalizeSegs(_, _)
NormalizeSegs(acc, segs) ==
  IF segs = <<>> THEN acc
  ELSE IF Head(segs) = Dot THEN NormalizeSegs(acc, Tail(segs))
  ELSE IF Head(segs) = DotDot
  THEN NormalizeSegs(IF acc = <<>> THEN acc
                     ELSE SubSeq(acc, 1, Len(acc) - 1), Tail(segs))
  ELSE NormalizeSegs(Append(acc, Head(segs)), Tail(segs))

\* path.resolve(p) with process.cwd() = cwd: the absolute file p denotes
Resolve(platform, cwd, p) ==
  LET base == IF platform = "win32" THEN <<cwd.segs[1]>> ELSE <<>>
  IN IF p.abs
     THEN base \o NormalizeSegs(<<>>, p.segs)
     ELSE IF platform = "win32" /\ p.segs # <<>> /\ IsDrive(p.segs[1])
     THEN <<p.segs[1]>> \o NormalizeSegs(<<>>, Tail(p.segs))
     ELSE base \o NormalizeSegs(<<>>,
            (IF platform = "win32" THEN Tail(cwd.segs) ELSE cwd.segs)
              \o p.segs)

RECURSIVE CommonPrefixLen(_, _)
CommonPrefixLen(f, t) ==
  IF f # <<>> /\ t # <<>> /\ Head(f) = Head(t)
  THEN 1 + CommonPrefixLen(Tail(f), Tail(t))
  ELSE 0

\* path.relative(from, to)
Relative(platform, cwd, from, to) ==
  LET f == Resolve(platform, cwd, from)
      t == Resolve(platform, cwd, to)
      c == CommonPrefixLen(f, t)
  IN IF platform = "win32" /\ f[1] # t[1]
     THEN [abs |-> FALSE, segs |-> t, sep |-> Backslash]
     ELSE [abs |-> FALSE,
           segs |-> [k \in 1..(Len(f) - c) |-> DotDot]
                      \o SubSeq(t, c + 1, Len(t)),
           sep |-> NativeSep(platform)]

\* .replace(/^\/([A-Za-z]:)/, '$1')
StripDriveSlash(p) ==
  IF p.abs /\ p.segs # <<>> /\ IsDrive(p.segs[1])
  THEN [p EXCEPT !.abs = FALSE]
  ELSE p

\* .replace(/^\//, '')
StripLeadingSlash(p) == IF p.abs THEN [p EXCEPT !.abs = FALSE] ELSE p

\* .replace(/\\/g, '/')
ForwardSlashes(p) == [p EXCEPT !.sep = "/"]

\* source lines 313-315
absolutePath(pathname) == StripLeadingSlash(StripDriveSlash(pathname))

\* source lines 317-319
normalizedPath(platform, cwd, pathname) ==
  ForwardSlashes(Relative(platform, cwd, cwd, absolutePath(pathname)))

\* path.join(projectRoot, 'dist').replace(/\\/g, '/'), source lines 397-399
DistSeg == <<"d","i","s","t">>
distPath(cwd) ==
  PathChars(ForwardSlashes(
    [cwd EXCEPT !.segs = NormalizeSegs(<<>>, cwd.segs \o <<DistSeg>>)]))

\* the file that fs.readFile / fs.writeFile open for a path argument
FileOf(platform, cwd, p) == Resolve(platform, cwd, p)

(***************************************************************************)
(* Inputs of the model: the environment of the build (platform, working    *)
(* directory, output directory), the routes handed to the hook and the     *)
(* emitted documents.                                                      *)
(***************************************************************************)
ProjSeg == <<"p","r","o","j">>
BuildSeg == <<"o","u","t">>
DriveSeg == <<"C", ":">>
IndexSeg == IndexHtml
RouterSeg == RouterWord \o DotHtml

\* values of process.cwd()
Cwds(platform) ==
  IF platform = "win32"
  THEN {[abs |-> FALSE, segs |-> <<DriveSeg, ProjSeg>>, sep |-> Backslash]}
  ELSE {[abs |-> TRUE, segs |-> <<ProjSeg>>, sep |-> "/"]}

\* values of new URL(dir).pathname, without the trailing slash
Dirs(platform) ==
  LET root == IF platform = "win32" THEN <<DriveSeg, ProjSeg>>
              ELSE <<ProjSeg>>
  IN {[abs |-> TRUE, segs |-> root \o <<d>>, sep |-> "/"] :
        d \in {DistSeg, BuildSeg}}

\* values of route.distURL.pathname for the documents emitted under d
Locators(d) ==
  {[d EXCEPT !.segs = d.segs \o <<f>>] : f \in {IndexSeg, RouterSeg}}

NoURL == [present |-> FALSE,
          pathname |-> [abs |-> TRUE, segs |-> <<>>, sep |-> "/"]]
URLOf(l) == [present |-> TRUE, pathname |-> l]

\* a document: an optional hash-router signature and one reference
Signature == <<"H","a","s","h","R","o","u","t","e","r"," ">>
Kinds == {"href", "src", "to", "hydrate", "import"}
\* attributes whose name ends with the name of a rewritten attribute
DataPrefix == <<"d","a","t","a","-">>
GoPrefix == <<"g","o">>
Lookalikes == {"data-src", "goto"}
KindName(kind) ==
  CASE kind = "href" -> HrefName
    [] kind = "src" -> SrcName
    [] kind = "to" -> ToName
    [] kind = "hydrate" -> HydrateName
    [] kind = "data-src" -> DataPrefix \o SrcName
    [] kind = "goto" -> GoPrefix \o ToName
    [] OTHER -> ImportName

Construct(kind, value) ==
  IF kind = "import"
  THEN ImportName \o <<"(", Quote>> \o value \o <<Quote, ")">>
  ELSE KindName(kind) \o <<"=", Quote>> \o value \o <<Quote>>

MakeDoc(kind, value, hash) ==
  (IF hash THEN Signature ELSE <<>>) \o Construct(kind, value)

\* values of plain page links
PlainValues == { <<"/","a">>, <<"/","b","/">>, <<"/">> }

\* a document with two plain links, href and to, and a hash-router
\* signature before, between or after them
TypeHash == <<"t","y","p","e",":"," ",Quote,"h","a","s","h",Quote," ">>
PairInputs ==
  [kind : {"pair"}, value : PlainValues, hash : BOOLEAN, second : PlainValues,
   place : {"before", "between", "after"}, signature : {Signature, TypeHash}]

PairDoc(in) ==
  LET sig == IF in.hash THEN in.signature ELSE <<>>
      first == Construct("href", in.value)
      second == Construct("to", in.second)
  IN CASE in.place = "before" -> sig \o first \o <<" ">> \o second
       [] in.place = "between" -> first \o <<" ">> \o sig \o second
       [] OTHER -> first \o <<" ">> \o second \o <<" ">> \o sig

\* the document built from an input
DocOf(in) ==
  IF in.kind = "pair" THEN PairDoc(in)
  ELSE MakeDoc(in.kind, in.value, in.hash)

\* reference values: a prefix, at most MaxDirs directories and a leaf
HttpsScheme == <<"h","t","t","p","s",":","/","/">>
Prefixes ==
  { <<>>, <<"/">>, <<"/","/">>, DotSlash, DotDotSlash, HashSlash,
    SlashHashSlash, <<"/",".","/">>, <<Apos,"/","/">>, HttpsScheme }
DirAtoms == { AstroDir, <<"a","/">> }
Leaves ==
  { <<>>, <<"a">>, <<"a",".","j","s">>, <<"b">> \o DotHtml, <<"/">>,
    <<"a",".","x","m","l">> }

RECURSIVE DirsOf(_)
DirsOf(n) ==
  IF n = 0 THEN {<<>>}
  ELSE LET shorter == DirsOf(n - 1)
       IN shorter \cup {v \o a : v \in shorter, a \in DirAtoms}

Values == {p \o d \o l : p \in Prefixes, d \in DirsOf(MaxDirs), l \in Leaves}

NoFile == [exists |-> FALSE, text |-> <<>>]
FileWith(text) == [exists |-> TRUE, text |-> text]
NoError == [syscall |-> "none", path |-> <<>>]
NoInput == [kind |-> "none", value |-> <<>>, hash |-> FALSE]

\* the emitted documents of the concurrency model
HookDocs == {MakeDoc("href", <<"/","a">>, FALSE)}

(***************************************************************************)
(* The scaffolding command line (bin/cli.ts with its project-checks,       *)
(* electron-operations, template-operations and project-operations         *)
(* modules, and the earlier single-file src/cli.ts).  The state of one run *)
(* is a record c: the arguments of the call, the package.json, Astro       *)
(* configuration and files the run can see, where the run stands, and the  *)
(* trace of everything it has done (console output, prompts, file and      *)
(* process operations).  Each step of the flow is an operator from such a  *)
(* record to the next one.                                                 *)
(***************************************************************************)
NameLimit == 214
MaxBody == 2

\* the entry points: main of bin/cli.ts, main of src/cli.ts, and a direct
\* call of the exported createNewProject
Entries == {"bin", "src", "create"}

\* errors: what the flows throw and catch
NoErr == [message |-> "", code |-> ""]
ExitError == [message |-> "User force closed the prompt", code |-> "EXIT"]
InvalidNameError == [message |-> "Invalid project name", code |-> ""]
NotFoundError == [message |-> "ENOENT", code |-> "ENOENT"]
CommandError == [message |-> "Command failed", code |-> ""]

\* bin/utils.ts tests the code, src/cli.ts tests the message
isExitPromptError(entry, error) ==
  IF entry = "src"
  THEN error.message \in {"User force closed the prompt",
                          "Prompt was canceled"}
  ELSE error.code = "EXIT"

\* project names
DefaultName ==
  <<"a","s","t","r","o","-","e","l","e","c","t","r","o","n","-","a","p","p">>
NameChars == {"a", "1", "-", "_", ".", "/", "A", "@"}
ScopePrefixes ==
  { <<>>, <<"@","s","/">>, <<"@","/">>, <<"@","S","/">>,
    <<"@","s","/","s","/">> }

RECURSIVE BodiesOf(_)
BodiesOf(n) ==
  IF n = 0 THEN {<<>>}
  ELSE LET shorter == BodiesOf(n - 1)
       IN shorter \cup {Append(b, ch) : b \in shorter, ch \in NameChars}

LongName(n) == [k \in 1..n |-> "a"]

Names ==
  {p \o b : p \in ScopePrefixes, b \in BodiesOf(MaxBody)}
    \cup {LongName(NameLimit), LongName(NameLimit + 1), DefaultName}

\* name.split('/')
RECURSIVE Split(_)
Split(name) ==
  LET k == IndexFrom(name, 1, <<"/">>)
  IN IF k = 0 \/ k > Len(name) THEN <<name>>
     ELSE <<SubSeq(name, 1, k - 1)>> \o Split(SubSeq(name, k + 1, Len(name)))

\* String.prototype.toLowerCase on the letters of the model
ToLowerCase(name) ==
  [k \in 1..Len(name) |-> IF name[k] = "A" THEN "a"
                          ELSE IF name[k] = "S" THEN "s" ELSE name[k]]

\* /^[a-z0-9-_]+$/
ValidChars == LowerChars \cup DigitChars \cup {"-", "_"}

\* variant: names of any length are accepted
validateProjectNameNoLimit(fullName) ==
  LET parts == Split(fullName)
      scoped == fullName # <<>> /\ Head(fullName) = "@"
      name == IF scoped /\ Len(parts) = 2 THEN parts[2] ELSE fullName
  IN /\ fullName # <<>>
     /\ scoped => Len(parts) = 2
     /\ name # <<>>
     /\ \A k \in 1..Len(name) : name[k] \in ValidChars
     /\ Head(name) \notin {".", "_", "-"}

\* validateProjectName of project-operations.ts
validateProjectName(fullName) ==
  LET parts == Split(fullName)
      scoped == fullName # <<>> /\ Head(fullName) = "@"
      name == IF scoped /\ Len(parts) = 2 THEN parts[2] ELSE fullName
  IN IF fullName = <<>> THEN FALSE
     ELSE IF scoped /\ Len(parts) # 2 THEN FALSE
     ELSE IF ToLowerCase(name) # name THEN FALSE
     ELSE IF ~(name # <<>> /\ \A k \in 1..Len(name) : name[k] \in ValidChars)
     THEN FALSE
     ELSE IF Head(name) = "." \/ Head(name) = "_" THEN FALSE
     ELSE IF Head(name) = "-" THEN FALSE
     ELSE IF Len(name) < 1 THEN FALSE
     ELSE IF Len(name) > NameLimit THEN FALSE
     ELSE TRUE

\* the files of a project that the flows test, create or rename
ElectronDir == "electron"
MainTs == "electron/main.ts"
MainJs == "electron/main.js"
PreloadTs == "electron/preload.ts"
PreloadJs == "electron/preload.js"
PackageJson == "package.json"
AstroConfig == "astro.config.mjs"
File(at, what) == [at |-> at, what |-> what]

\* the value written to the main field
MainEntryJs == "dist-electron/main.js"
MainEntryTs == "dist-electron/main.ts"

\* events of the trace
Ev(kind, at, what) == [kind |-> kind, at |-> at, what |-> what]
Emit(c, kind, at, what) == [c EXCEPT !.trace = Append(@, Ev(kind, at, what))]
Log(c, message) == Emit(c, "log", "", message)
LogError(c, message) == Emit(c, "error", "", message)

\* console messages
Cancelled == "Operation cancelled"
CancelledNl == "\nOperation cancelled"
Detected == "Astro + Electron project detected!"
AllSet == "You're all set! Run your dev command to get started."
Created == "Project created successfully!"

\* how a run ends: the promise of the entry point resolves or rejects, or
\* the process exits
Return(c) == [c EXCEPT !.pc = "done", !.result = "resolved"]
Reject(c, error) ==
  [c EXCEPT !.pc = "done", !.result = "rejected", !.error = error]
Exit(c, code) ==
  [Emit(c, "exit", "", code) EXCEPT !.pc = "done", !.result = "exited"]

\* a prompt is shown and the run waits for its answer
Ask(c, prompt) == [Emit(c, "prompt", "", prompt) EXCEPT !.pc = prompt]

\* an operation has thrown: the error travels up to the next handler
Raise(c, error) == [c EXCEPT !.raised = error]
Raised(c) == c.raised # NoErr
Caught(c) == [c EXCEPT !.raised = NoErr]

(***************************************************************************)
(* project-checks.ts                                                       *)
(***************************************************************************)
hasPackageJson(c) == c.pkg.exists
isAstroProject(c) == c.pkg.exists /\ c.pkg.astro
isElectronProject(c) ==
  c.pkg.exists /\ c.pkg.electron /\ c.config = "electron"
hasMainField(c) == c.pkg.exists /\ c.pkg.main # ""
isJavaScriptProject(c) == ~(c.pkg.exists /\ c.pkg.typescript)

\* electron-operations.ts looks for the files of the project's language,
\* src/cli.ts for the TypeScript ones
hasElectronFiles(c) ==
  LET isJS == c.entry # "src" /\ isJavaScriptProject(c)
  IN /\ File("cwd", ElectronDir) \in c.disk
     /\ File("cwd", IF isJS THEN MainJs ELSE MainTs) \in c.disk
     /\ File("cwd", IF isJS THEN PreloadJs ELSE PreloadTs) \in c.disk

(***************************************************************************)
(* electron-operations.ts                                                  *)
(***************************************************************************)
\* fs.rename(from, to): fails when from does not exist
Rename(c, at, from, to) ==
  IF Raised(c) THEN c
  ELSE IF File(at, from) \notin c.disk
  THEN Raise(Emit(c, "rename", at, from), NotFoundError)
  ELSE [Emit(c, "rename", at, from) EXCEPT
          !.disk = (@ \ {File(at, from)}) \cup {File(at, to)}]

\* fs.readFile followed by fs.writeFile of the same file
Rewrite(c, at, what) ==
  IF Raised(c) THEN c
  ELSE IF File(at, what) \notin c.disk
  THEN Raise(Emit(c, "read", at, what), NotFoundError)
  ELSE Emit(Emit(c, "read", at, what), "write", at, what)

\* convertToJavaScript takes no parameter: electronDir is
\* path.join(process.cwd(), 'electron') whatever the caller passes
convertToJavaScript(c, targetPath) ==
  Rewrite(Rename(Rename(c, "cwd", MainTs, MainJs), "cwd", PreloadTs, PreloadJs),
          "cwd", MainJs)

\* the electron files a template brings to <at>
WithElectronFiles(c, at, isJS) ==
  [c EXCEPT !.disk = @ \cup {File(at, ElectronDir),
                             File(at, IF isJS THEN MainJs ELSE MainTs),
                             File(at, IF isJS THEN PreloadJs ELSE PreloadTs)}]

\* fs.cp of the electron template into <at>/electron
CopyElectron(c, at, isJS) ==
  WithElectronFiles(Emit(c, "cp", at, ElectronDir), at, isJS)

\* addElectronIntegration: bin/electron-operations.ts adds scripts and the
\* builder configuration to package.json; src/cli.ts adds the integration
\* to the Astro configuration, when there is one without it
addElectronIntegration(c) ==
  IF c.entry = "src"
  THEN IF c.config = "none"
       THEN Emit(c, "warn", "", "Could not find astro.config file")
       ELSE IF c.config = "electron" THEN c
       ELSE Log([Emit(c, "write", "cwd", AstroConfig) EXCEPT
                   !.config = "electron"],
                "Added Electron integration to Astro config")
  ELSE Log([Emit(Emit(c, "read", "cwd", PackageJson),
                 "write", "cwd", PackageJson) EXCEPT !.pkg.scripts = TRUE],
           "Added Electron scripts and configuration to package.json")

\* addMainField of bin/cli.ts, and lines 571-588 of src/cli.ts
addMainField(c) ==
  LET isJS == isJavaScriptProject(c)
      entryFile == IF c.entry = "src" /\ ~isJS THEN MainEntryTs
                   ELSE MainEntryJs
  IN Log([Emit(Emit(c, "read", "cwd", PackageJson),
               "write", "cwd", PackageJson) EXCEPT !.pkg.main = entryFile],
         "Added main field to package.json")

(***************************************************************************)
(* The catch blocks of main.                                               *)
(***************************************************************************)
\* bin/cli.ts lines 70-79, src/cli.ts lines 644-654
MainCatch(c, error) ==
  IF isExitPromptError(c.entry, error)
  THEN IF c.entry = "src" THEN Return(Log(Caught(c), CancelledNl))
       ELSE Return(Caught(c))
  ELSE Exit(LogError(Caught(c), "Error:"), "1")

\* an error leaves the function that is running: createNewProject is
\* returned by main without await, so its rejection is main's; everything
\* else is inside main's try block
Throw2Main(c, error) ==
  IF c.entry = "src" \/ c.flow = "add" THEN MainCatch(c, error)
  ELSE Reject(Caught(c), error)

(***************************************************************************)
(* Creating a new project: createNewProject of project-operations.ts and   *)
(* lines 354-420 / 443-509 of src/cli.ts.                                  *)
(***************************************************************************)
Finish(c, message) == Return(Log(c, message))

\* configureJavaScript(targetPath)
configureJavaScript(c) ==
  LET c1 == Emit(Emit(c, "read", "target", PackageJson),
                 "write", "target", PackageJson)
      c2 == convertToJavaScript(c1, "target")
  IN IF Raised(c2) THEN c2
     ELSE [Emit(c2, "write", "target", AstroConfig) EXCEPT
             !.disk = @ \cup {File("target", AstroConfig)}]

\* fs.cp of a project template into the target directory
CopyProject(c, isJS) ==
  WithElectronFiles(
    [Emit(c, "cp", "target", "") EXCEPT
       !.disk = @ \cup {File("target", ""), File("target", PackageJson)}],
    "target", isJS)

\* the template is copied: src/cli.ts copies the template of the chosen
\* language, project-operations.ts the base template, which it configures
\* for JavaScript
CopyTemplate(c) ==
  IF c.entry = "src"
  THEN Finish(CopyProject(c, c.lang = "javascript"), Created)
  ELSE LET c1 == CopyProject(c, FALSE)
           c2 == IF c.lang = "javascript" THEN configureJavaScript(c1)
                 ELSE c1
       IN IF Raised(c2) THEN Throw2Main(c2, c2.raised)
          ELSE Finish(c2, Created)

\* handleExistingDirectory(targetPath) up to its prompt
handleExistingDirectory(c) ==
  LET c1 == Emit(c, "access", "target", "")
  IN IF File("target", "") \in c.disk THEN Ask(c1, "overwrite")
     ELSE CopyTemplate(c1)

\* the language is known, or asked for
ChooseLanguage(c) ==
  IF c.entry # "src" /\ c.language # ""
  THEN handleExistingDirectory([c EXCEPT !.lang = c.language])
  ELSE Ask(c, "language")

createNewProject(c) ==
  IF ~validateProjectName(c.projName)
  THEN Reject(c, InvalidNameError)
  ELSE ChooseLanguage(c)

(***************************************************************************)
(* Adding Electron to an existing Astro project: addElectronToExisting of  *)
(* bin/cli.ts and lines 512-643 of src/cli.ts.                             *)
(***************************************************************************)
addElectronToExisting(c) ==
  LET status == [hasElectron |-> isElectronProject(c),
                 mainExists |-> hasMainField(c),
                 electronFilesExist |-> hasElectronFiles(c)]
      c0 == IF c.entry = "src" THEN Log(c, "Astro project detected!") ELSE c
      c1 == [c0 EXCEPT !.status = status, !.flow = "add"]
      c2 == IF status.hasElectron THEN c1
            ELSE Log(c1, "Electron not detected in package.json")
      c3 == IF status.mainExists THEN c2
            ELSE Log(c2, "Main field missing in package.json")
      c4 == IF status.electronFilesExist THEN c3
            ELSE Log(c3, "Required Electron files missing")
  IN Ask(c4, "addElectron")

\* variant: the dependencies are installed in every project
InstallAlways(c) ==
  [Emit(c, "exec", "cwd", "install") EXCEPT !.pc = "install"]

\* the dependencies are installed by a child process, when Electron was
\* not detected
InstallOrFinish(c) ==
  IF ~c.status.hasElectron
  THEN [Emit(c, "exec", "cwd", "install") EXCEPT !.pc = "install"]
  ELSE Finish(c, "configured")

\* addElectronIntegration, addMainField, installation
AfterFiles(c) ==
  LET c1 == addElectronIntegration(c)
      c2 == IF ~c.status.mainExists THEN addMainField(c1) ELSE c1
  IN InstallOrFinish(c2)

\* bin/cli.ts lines 119-124, after copyElectronFiles has returned
AfterCopy(c) ==
  LET c1 == IF isJavaScriptProject(c) THEN convertToJavaScript(c, "cwd")
            ELSE c
  IN IF Raised(c1) THEN MainCatch(c1, c1.raised) ELSE AfterFiles(c1)

\* copyElectronFiles(currentDir) up to its prompt; src/cli.ts copies the
\* template of the project's language without asking
copyElectronFiles(c) ==
  IF c.entry = "src"
  THEN AfterFiles(CopyElectron(Log(c, "Adding Electron files..."), "cwd",
                               isJavaScriptProject(c)))
  ELSE LET c1 == Emit(c, "access", "cwd", ElectronDir)
       IN IF File("cwd", ElectronDir) \in c.disk
          THEN Ask(c1, "electronOverwrite")
          ELSE AfterCopy(Log(CopyElectron(c1, "cwd", FALSE),
                             "Added Electron files to your project"))

(***************************************************************************)
(* main                                                                    *)
(***************************************************************************)
WithName(c) ==
  [c EXCEPT !.projName = IF c.name = <<>> THEN DefaultName ELSE c.name]

\* variant: a configured project is configured again
mainAlways(c) ==
  IF ~hasPackageJson(c) \/ ~isAstroProject(c)
  THEN IF c.entry = "src" THEN Ask(c, "projectName")
       ELSE createNewProject(WithName(c))
  ELSE addElectronToExisting(c)

main(c) ==
  IF ~hasPackageJson(c)
  THEN IF c.entry = "src" THEN Ask(c, "projectName")
       ELSE createNewProject(WithName(c))
  ELSE IF /\ isAstroProject(c)
          /\ isElectronProject(c)
          /\ hasMainField(c)
          /\ hasElectronFiles(c)
  THEN Return(Log(Log(c, Detected), AllSet))
  ELSE IF ~isAstroProject(c)
  THEN IF c.entry = "src" THEN Ask(c, "projectName")
       ELSE createNewProject(WithName(c))
  ELSE addElectronToExisting(c)

(***************************************************************************)
(* The runs of the command line: the state before the entry point is       *)
(* called.                                                                 *)
(***************************************************************************)
NoStatus ==
  [hasElectron |-> FALSE, mainExists |-> FALSE, electronFilesExist |-> FALSE]
NoPkg == [exists |-> FALSE, astro |-> FALSE, electron |-> FALSE,
          typescript |-> FALSE, main |-> "", scripts |-> FALSE]
PkgStates ==
  {NoPkg} \cup [exists : {TRUE}, astro : BOOLEAN, electron : BOOLEAN,
                typescript : BOOLEAN, main : {"", MainEntryJs},
                scripts : {FALSE}]
ConfigStates == {"none", "plain", "electron"}
ElectronStates ==
  { {},
    {File("cwd", ElectronDir)},
    {File("cwd", ElectronDir), File("cwd", MainTs), File("cwd", PreloadTs)},
    {File("cwd", ElectronDir), File("cwd", MainJs), File("cwd", PreloadJs)} }
TargetStates == { {}, {File("target", "")} }
Languages == {"javascript", "typescript"}
PackageManagers == {"npm", "pnpm"}

CliStart(entry, name, pm, language, pkg, config, disk) ==
  [entry |-> entry, name |-> name, pm |-> pm, language |-> language,
   pkg |-> pkg, config |-> config, disk |-> disk,
   pc |-> "start", result |-> "idle", error |-> NoErr, raised |-> NoErr,
   flow |-> "", projName |-> <<>>, lang |-> "", status |-> NoStatus,
   trace |-> <<>>,
   before |-> [pkg |-> pkg, config |-> config, disk |-> disk, pm |-> pm]]

\* the command line is not run
CliIdle == CliStart("none", <<>>, "", "", NoPkg, "none", {})

\* main(projectName?, defaultPM?, language?) of bin/cli.ts in any project,
\* with any package manager detected
BinStarts ==
  {CliStart("bin", n, m, l, p, g, e \cup t) :
     n \in {<<>>, <<"a">>, <<"A">>}, m \in PackageManagers,
     l \in Languages \cup {""}, p \in PkgStates, g \in ConfigStates,
     e \in ElectronStates, t \in TargetStates}

\* main() of src/cli.ts in any project
SrcStarts ==
  {CliStart("src", <<>>, m, "", p, g, e \cup t) :
     m \in PackageManagers, p \in PkgStates, g \in ConfigStates,
     e \in ElectronStates, t \in TargetStates}

\* createNewProject(projectName, packageManager, language?) with any name
CreateStarts ==
  {CliStart("create", n, "npm", l, NoPkg, "none", e \cup t) :
     n \in Names, l \in Languages \cup {""}, e \in ElectronStates,
     t \in TargetStates}

VARIABLES
  platform,  \* process.platform: which flavour of path the hook runs with
  cwd,       \* process.cwd()
  dir,       \* the hook's dir argument (pathname of the output directory)
  routes,    \* the hook's routes argument: sequence of distURL values
  fs,        \* the file system: file -> [exists, text]
  calls,     \* number of times the hook has been invoked
  snap,      \* snap[k]: the file system when the k-th invocation started,
             \* and how the invocation before it had ended
  pc,        \* pc[i]: where the task of routes[i] stands
  buf,       \* buf[i]: updatedContent of task i, handed to fs.writeFile
  reads,     \* reads[i]: path arguments of the fs.readFile calls of task i
  writes,    \* writes[i]: path arguments of the fs.writeFile calls of task i
  hook,      \* state of the promise returned by the hook
  hookErr,   \* the error the hook rejected with
  log,       \* console.error output: sequence of [path, error]
  input,     \* the reference the single document was built from, if any
  cli        \* the run of the scaffolding command line

hookVars == <<platform, cwd, dir, routes, fs, calls, snap, pc, buf, reads,
              writes, hook, hookErr, log, input>>

vars == <<hookVars, cli>>

Tasks == 1..Len(routes)

\* variant: every route is processed
HasOutputAlways(route) == TRUE

\* if (route.distURL), source line 312
HasOutput(route) == route.present

\* source lines 313-319 for task i
TaskPath(i) == normalizedPath(platform, cwd, routes[i].pathname)
TaskFile(i) == FileOf(platform, cwd, TaskPath(i))

\* every file a route of the given output directory can name or touch
FilesOf(pf, wd, d) ==
  {FileOf(pf, wd, normalizedPath(pf, wd, l)) : l \in Locators(d)}
    \cup {Resolve(pf, wd, l) : l \in Locators(d)}

RECURSIVE SeqsOf(_, _)
SeqsOf(S, n) ==
  IF n = 0 THEN {<<>>}
  ELSE LET shorter == SeqsOf(S, n - 1)
       IN shorter \cup {Append(q, x) : q \in shorter, x \in S}

InitEnv ==
  /\ platform \in Platforms
  /\ cwd \in Cwds(platform)
  /\ dir \in Dirs(platform)

InitHook ==
  /\ calls = 0
  /\ snap = <<>>
  /\ pc = [i \in Tasks |-> "idle"]
  /\ buf = [i \in Tasks |-> <<>>]
  /\ reads = [i \in Tasks |-> <<>>]
  /\ writes = [i \in Tasks |-> <<>>]
  /\ hook = "idle"
  /\ hookErr = NoError
  /\ log = <<>>

\* the build has emitted its documents, which exist at their output
\* locations; any number of routes, with or without an output location; any
\* other file the hook may open exists or not
Init ==
  /\ InitEnv
  /\ routes \in SeqsOf({NoURL} \cup {URLOf(l) : l \in Locators(dir)},
                       MaxRoutes)
  /\ fs \in [FilesOf(platform, cwd, dir) ->
               {NoFile} \cup {FileWith(d) : d \in HookDocs}]
  /\ \A l \in Locators(dir) : fs[Resolve(platform, cwd, l)].exists
  /\ input = NoInput
  /\ InitHook
  /\ cli = CliIdle

\* one route whose document holds one reference drawn from Values, or a
\* plain link in an attribute of a similar name, or two plain links; the
\* document of two links is index.html or router.html
RwInit ==
  /\ platform = "posix"
  /\ cwd \in Cwds(platform)
  /\ dir \in Dirs(platform)
  /\ input \in [kind : Kinds, value : Values, hash : BOOLEAN]
                \cup [kind : Lookalikes, value : PlainValues, hash : BOOLEAN]
                \cup PairInputs
  /\ routes \in {<<URLOf([dir EXCEPT !.segs = dir.segs \o <<f>>])>> :
                   f \in IF input.kind = "pair" THEN {IndexSeg, RouterSeg}
                         ELSE {IndexSeg}}
  /\ fs = [f \in FilesOf(platform, cwd, dir) |->
             IF f = TaskFile(1) THEN FileWith(DocOf(input)) ELSE NoFile]
  /\ InitHook
  /\ cli = CliIdle

(***************************************************************************)
(* The hook 'astro:build:done' (source lines 304-427).                     *)
(***************************************************************************)
\* The hook is called: routes.map starts one task per route; each task runs
\* up to its first await, i.e. it has called fs.readFile, or it has returned
\* at once when the route has no distURL.  Promise.all of no pending task
\* resolves.
BuildDone ==
  /\ calls < MaxCalls
  /\ hook # "pending"
  /\ \A i \in Tasks : pc[i] \notin {"reading", "writing"}
  /\ calls' = calls + 1
  /\ snap' = Append(snap, [fs |-> fs, before |-> hook])
  /\ pc' = [i \in Tasks |->
              IF HasOutput(routes[i]) THEN "reading" ELSE "fulfilled"]
  /\ reads' = [i \in Tasks |->
                 IF HasOutput(routes[i]) THEN <<TaskPath(i)>> ELSE <<>>]
  /\ writes' = [i \in Tasks |-> <<>>]
  /\ buf' = [i \in Tasks |-> <<>>]
  /\ hook' = IF \A i \in Tasks : ~HasOutput(routes[i])
             THEN "resolved" ELSE "pending"
  /\ hookErr' = NoError
  /\ log' = <<>>
  /\ UNCHANGED <<cli, platform, cwd, dir, routes, fs, input>>

\* the catch block of task i (source lines 420-423) and what Promise.all
\* does with the rejection: the first rejection rejects the hook's promise
Throw(i, error) ==
  /\ log' = Append(log, [path |-> PathChars(TaskPath(i)), error |-> error])
  /\ pc' = [pc EXCEPT ![i] = "rejected"]
  /\ hook' = IF hook = "pending" THEN "rejected" ELSE hook
  /\ hookErr' = IF hook = "pending" THEN error ELSE hookErr

\* fs.readFile of task i delivers the file's text; the task transforms it
\* and calls fs.writeFile (source lines 322-419)
ReadOk(i) ==
  /\ pc[i] = "reading"
  /\ fs[TaskFile(i)].exists
  /\ buf' = [buf EXCEPT ![i] =
               updatedContent(fs[TaskFile(i)].text, PathChars(TaskPath(i)),
                              distPath(cwd))]
  /\ writes' = [writes EXCEPT ![i] = Append(@, TaskPath(i))]
  /\ pc' = [pc EXCEPT ![i] = "writing"]
  /\ UNCHANGED <<cli, platform, cwd, dir, routes, fs, calls, snap, reads, hook,
                 hookErr, log, input>>

\* fs.readFile of task i fails (missing file or any other I/O error)
ReadFail(i) ==
  /\ pc[i] = "reading"
  /\ Throw(i, [syscall |-> "read", path |-> PathChars(TaskPath(i))])
  /\ UNCHANGED <<cli, platform, cwd, dir, routes, fs, calls, snap, buf, reads,
                 writes, input>>

\* variant: once the hook has rejected, a pending write is dropped
WriteOkCancelled(i) ==
  /\ pc[i] = "writing"
  /\ fs' = IF hook = "rejected" THEN fs
           ELSE [fs EXCEPT ![TaskFile(i)] = FileWith(buf[i])]
  /\ pc' = [pc EXCEPT ![i] = "fulfilled"]
  /\ hook' = IF hook = "pending"
                  /\ \A j \in Tasks \ {i} : pc[j] = "fulfilled"
             THEN "resolved" ELSE hook
  /\ UNCHANGED <<cli, platform, cwd, dir, routes, calls, snap, buf, reads,
                 writes, hookErr, log, input>>

\* variant: the hook resolves with the first task that fulfils
WriteOkFirst(i) ==
  /\ pc[i] = "writing"
  /\ fs' = [fs EXCEPT ![TaskFile(i)] = FileWith(buf[i])]
  /\ pc' = [pc EXCEPT ![i] = "fulfilled"]
  /\ hook' = IF hook = "pending" THEN "resolved" ELSE hook
  /\ UNCHANGED <<cli, platform, cwd, dir, routes, calls, snap, buf, reads,
                 writes, hookErr, log, input>>

\* fs.writeFile of task i completes; the task's promise fulfils, and
\* Promise.all resolves when it was the last one
WriteOk(i) ==
  /\ pc[i] = "writing"
  /\ fs' = [fs EXCEPT ![TaskFile(i)] = FileWith(buf[i])]
  /\ pc' = [pc EXCEPT ![i] = "fulfilled"]
  /\ hook' = IF hook = "pending"
                  /\ \A j \in Tasks \ {i} : pc[j] = "fulfilled"
             THEN "resolved" ELSE hook
  /\ UNCHANGED <<cli, platform, cwd, dir, routes, calls, snap, buf, reads,
                 writes, hookErr, log, input>>

\* fs.writeFile of task i fails
WriteFail(i) ==
  /\ pc[i] = "writing"
  /\ Throw(i, [syscall |-> "write", path |-> PathChars(TaskPath(i))])
  /\ UNCHANGED <<cli, platform, cwd, dir, routes, fs, calls, snap, buf, reads,
                 writes, input>>

Next ==
  \/ BuildDone
  \/ \E i \in Tasks : ReadOk(i)
  \/ \E i \in Tasks : ReadFail(i)
  \/ \E i \in Tasks : WriteOk(i)
  \/ \E i \in Tasks : WriteFail(i)

Spec == Init /\ [][Next]_vars

RwSpec == RwInit /\ [][Next]_vars

(***************************************************************************)
(* The command line: the entry point is called, then every prompt is       *)
(* answered or force-closed, and the installation ends.                    *)
(***************************************************************************)
\* the answer given to the prompt the run is waiting at ("closed" when the
\* prompt is force-closed)
Answered(c, answer) == Emit(c, "answer", "", c.pc \o ":" \o answer)

\* the entry point runs up to its first prompt, or to its end
Start ==
  /\ cli.pc = "start"
  /\ cli' = IF cli.entry = "create"
            THEN createNewProject([cli EXCEPT !.result = "pending",
                                               !.projName = cli.name])
            ELSE main([cli EXCEPT !.result = "pending"])
  /\ UNCHANGED hookVars

\* src/cli.ts lines 369-371: the package manager is asked for when npm was
\* detected
AfterName(c) ==
  IF c.pm # "npm" THEN Ask(c, "language") ELSE Ask(c, "packageManager")

\* 'What is your project name?' of src/cli.ts
AnswerProjectName ==
  /\ cli.pc = "projectName"
  /\ \/ cli' = Return(Log(Answered(cli, "closed"), CancelledNl))
     \/ \E n \in {DefaultName, <<"a">>} :
          cli' = AfterName([Answered(cli, "name") EXCEPT !.projName = n])
  /\ UNCHANGED hookVars

\* 'Which package manager would you like to use?' of src/cli.ts
AnswerPackageManager ==
  /\ cli.pc = "packageManager"
  /\ \/ cli' = MainCatch(Answered(cli, "closed"), ExitError)
     \/ \E m \in PackageManagers :
          cli' = Ask([Answered(cli, m) EXCEPT !.pm = m], "language")
  /\ UNCHANGED hookVars

\* getTemplateType: template-operations.ts logs and rethrows the
\* force-close, src/cli.ts answers 'typescript' in its place
LanguageClosed(c) ==
  IF c.entry = "src"
  THEN handleExistingDirectory([c EXCEPT !.lang = "typescript"])
  ELSE Throw2Main(Log(c, CancelledNl), ExitError)

\* 'Which language would you like to use?'
AnswerLanguage ==
  /\ cli.pc = "language"
  /\ \/ cli' = LanguageClosed(Answered(cli, "closed"))
     \/ \E l \in Languages :
          cli' = handleExistingDirectory([Answered(cli, l) EXCEPT !.lang = l])
  /\ UNCHANGED hookVars

\* variant: the flow goes on after the refusal
OverwriteRefusedGoesOn(c) == CopyTemplate(Log(c, Cancelled))

\* the user answers no: src/cli.ts returns, handleExistingDirectory ends
\* the process
OverwriteRefused(c) ==
  IF c.entry = "src" THEN Return(Log(c, Cancelled))
  ELSE Exit(Log(c, Cancelled), "0")

\* the prompt is force-closed: the error has a code other than ENOENT, so
\* the catch block around the directory check throws it again
OverwriteClosed(c) ==
  IF c.entry = "src"
  THEN Throw2Main(LogError(c, "Error checking directory:"), ExitError)
  ELSE Throw2Main(c, ExitError)

\* 'Directory already exists. Overwrite?'
AnswerOverwrite ==
  /\ cli.pc = "overwrite"
  /\ \/ cli' = CopyTemplate(Answered(cli, "yes"))
     \/ cli' = OverwriteRefused(Answered(cli, "no"))
     \/ cli' = OverwriteClosed(Answered(cli, "closed"))
  /\ UNCHANGED hookVars

\* the force-close of the confirmation: src/cli.ts logs and returns,
\* bin/cli.ts leaves it to the catch block of main
AddElectronClosed(c) ==
  IF c.entry = "src" THEN Return(Log(c, CancelledNl))
  ELSE MainCatch(c, ExitError)

\* variant: the steps are performed after the refusal
AddElectronRefusedGoesOn(c) == AfterFiles(Log(c, Cancelled))

\* if (!shouldAddElectron): bin/cli.ts lines 111-114, src/cli.ts lines
\* 551-554
AddElectronRefused(c) == Return(Log(c, Cancelled))

\* 'Would you like to add Electron / configure Electron for this project?'
AnswerAddElectron ==
  /\ cli.pc = "addElectron"
  /\ \/ cli' = (IF ~cli.status.electronFilesExist
                THEN copyElectronFiles(Answered(cli, "yes"))
                ELSE AfterFiles(Answered(cli, "yes")))
     \/ cli' = AddElectronRefused(Answered(cli, "no"))
     \/ cli' = AddElectronClosed(Answered(cli, "closed"))
  /\ UNCHANGED hookVars

\* 'Electron directory already exists. Overwrite?' of copyElectronFiles: the
\* catch block around the prompt swallows the force-close, and the copy
\* goes on as if the directory did not exist
AnswerElectronOverwrite ==
  /\ cli.pc = "electronOverwrite"
  /\ \/ \E answer \in {"yes", "closed"} :
          cli' = AfterCopy(Log(CopyElectron(Answered(cli, answer), "cwd",
                                            FALSE),
                               "Added Electron files to your project"))
     \/ cli' = AfterCopy(Log(Answered(cli, "no"),
                             "Skipping electron files copy"))
  /\ UNCHANGED hookVars

\* the child process that installs the dependencies ends
InstallDone ==
  /\ cli.pc = "install"
  /\ \/ cli' = Finish(Log(cli, "Installed Electron dependencies"),
                      "configured")
     \/ cli' = MainCatch(LogError(cli, "Error installing"), CommandError)
  /\ UNCHANGED hookVars

CliNext ==
  \/ Start
  \/ AnswerProjectName
  \/ AnswerPackageManager
  \/ AnswerLanguage
  \/ AnswerOverwrite
  \/ AnswerAddElectron
  \/ AnswerElectronOverwrite
  \/ InstallDone

\* no build runs while the command line does
CliInit ==
  /\ platform = "posix"
  /\ cwd \in Cwds(platform)
  /\ dir = [abs |-> TRUE, segs |-> <<ProjSeg, DistSeg>>, sep |-> "/"]
  /\ routes = <<>>
  /\ fs = [f \in FilesOf(platform, cwd, dir) |-> NoFile]
  /\ input = NoInput
  /\ InitHook
  /\ cli \in BinStarts \cup SrcStarts \cup CreateStarts

CliSpec == CliInit /\ [][CliNext]_vars

(***************************************************************************)
(* The base-path variant of the hook (the integration that sets            *)
(* base: '/astro-electron-ts' at build time): each task reads the file at  *)
(* the route's locator, replaces the base path and '/public' by the        *)
(* relative path to the output directory, and writes the file back; its    *)
(* catch block logs and does not rethrow.                                  *)
(***************************************************************************)
BaseName ==
  <<"/","a","s","t","r","o","-","e","l","e","c","t","r","o","n","-","t","s">>
PublicName == <<"/","p","u","b","l","i","c">>
AboutSeg == <<"a","b","o","u","t">>

\* fileContent.replaceAll(/\/(astro-electron-ts|public)/g, replacement)
RECURSIVE ReplaceAllBaseFrom(_, _, _)
ReplaceAllBaseFrom(s, i, replacement) ==
  IF i > Len(s) THEN <<>>
  ELSE IF StartsWithAt(s, i, BaseName)
  THEN replacement \o ReplaceAllBaseFrom(s, i + Len(BaseName), replacement)
  ELSE IF StartsWithAt(s, i, PublicName)
  THEN replacement \o ReplaceAllBaseFrom(s, i + Len(PublicName), replacement)
  ELSE <<s[i]>> \o ReplaceAllBaseFrom(s, i + 1, replacement)

\* path.dirname(filePath)
Dirname(p) == [p EXCEPT !.segs = SubSeq(@, 1, Len(@) - 1)]

\* path.relative(localDir, new URL(dir).pathname) || '.'
relativePath(pf, wd, filePath, d) ==
  LET rel == PathChars(Relative(pf, wd, Dirname(filePath), d))
  IN IF rel = <<>> THEN <<".">> ELSE rel

\* the text handed to fs.writeFile
BaseContent(pf, wd, filePath, d, fileContent) ==
  ReplaceAllBaseFrom(fileContent, 1, relativePath(pf, wd, filePath, d))

\* new URL(route.distURL).pathname of task i, and the file it names
BasePath(i) == routes[i].pathname
BaseFile(i) == FileOf(platform, cwd, BasePath(i))

\* the documents of the base-path build: an empty one, and one that refers
\* to the public directory and to the base path
BaseDocs ==
  { <<>>,
    HrefName \o <<"=", Quote>> \o PublicName \o <<"/","a", Quote>>
      \o BaseName }

\* output locations: the documents directly under the output directory and
\* one in a subdirectory
BaseLocators(d) ==
  Locators(d)
    \cup {[d EXCEPT !.segs = d.segs \o <<AboutSeg, IndexSeg>>]}

BaseInit ==
  /\ platform = "posix"
  /\ cwd \in Cwds(platform)
  /\ dir \in Dirs(platform)
  /\ routes \in SeqsOf({NoURL} \cup {URLOf(l) : l \in BaseLocators(dir)},
                       MaxRoutes)
  /\ fs \in [{Resolve(platform, cwd, l) : l \in BaseLocators(dir)} ->
               {FileWith(d) : d \in BaseDocs}]
  /\ input = NoInput
  /\ InitHook
  /\ cli = CliIdle

\* the hook is called: every task with a distURL has called fs.readFile
BaseBuildDone ==
  /\ calls < MaxCalls
  /\ hook # "pending"
  /\ \A i \in Tasks : pc[i] \notin {"reading", "writing"}
  /\ calls' = calls + 1
  /\ snap' = Append(snap, [fs |-> fs, before |-> hook])
  /\ pc' = [i \in Tasks |->
              IF HasOutput(routes[i]) THEN "reading" ELSE "fulfilled"]
  /\ reads' = [i \in Tasks |->
                 IF HasOutput(routes[i]) THEN <<BasePath(i)>> ELSE <<>>]
  /\ writes' = [i \in Tasks |-> <<>>]
  /\ buf' = [i \in Tasks |-> <<>>]
  /\ hook' = IF \A i \in Tasks : ~HasOutput(routes[i])
             THEN "resolved" ELSE "pending"
  /\ hookErr' = NoError
  /\ log' = <<>>
  /\ UNCHANGED <<cli, platform, cwd, dir, routes, fs, input>>

\* Promise.all resolves when the task that settles is the last one
BaseSettle(i) ==
  hook' = IF hook = "pending"
               /\ \A j \in Tasks \ {i} : pc[j] \in {"fulfilled", "caught"}
          THEN "resolved" ELSE hook

\* variant: the catch block throws the error again
BaseCatchRethrow(i, error) ==
  /\ log' = Append(log, [message |-> "Error processing route",
                         path |-> PathChars(BasePath(i)), error |-> error])
  /\ pc' = [pc EXCEPT ![i] = "caught"]
  /\ hook' = IF hook = "pending" THEN "rejected" ELSE hook
  /\ hookErr' = IF hook = "pending" THEN error ELSE hookErr

\* the catch block of task i: console.error, and the task's promise fulfils
BaseCatch(i, error) ==
  /\ log' = Append(log, [message |-> "Error processing route",
                         path |-> PathChars(BasePath(i)), error |-> error])
  /\ pc' = [pc EXCEPT ![i] = "caught"]
  /\ BaseSettle(i)
  /\ UNCHANGED hookErr

\* fs.readFile of task i delivers the text: an empty text ends the task,
\* any other is replaced and handed to fs.writeFile
BaseReadOk(i) ==
  /\ pc[i] = "reading"
  /\ LET fileContent == fs[BaseFile(i)].text
     IN IF fileContent = <<>>
        THEN /\ pc' = [pc EXCEPT ![i] = "fulfilled"]
             /\ BaseSettle(i)
             /\ UNCHANGED <<buf, writes>>
        ELSE /\ buf' = [buf EXCEPT ![i] =
                          BaseContent(platform, cwd, BasePath(i), dir,
                                      fileContent)]
             /\ writes' = [writes EXCEPT ![i] = Append(@, BasePath(i))]
             /\ pc' = [pc EXCEPT ![i] = "writing"]
             /\ UNCHANGED hook
  /\ UNCHANGED <<cli, platform, cwd, dir, routes, fs, calls, snap, reads,
                 hookErr, log, input>>

\* fs.readFile of task i fails
BaseReadFail(i) ==
  /\ pc[i] = "reading"
  /\ BaseCatch(i, [syscall |-> "read", path |-> PathChars(BasePath(i))])
  /\ UNCHANGED <<cli, platform, cwd, dir, routes, fs, calls, snap, buf, reads,
                 writes, input>>

\* fs.writeFile of task i completes
BaseWriteOk(i) ==
  /\ pc[i] = "writing"
  /\ fs' = [fs EXCEPT ![BaseFile(i)] = FileWith(buf[i])]
  /\ pc' = [pc EXCEPT ![i] = "fulfilled"]
  /\ BaseSettle(i)
  /\ UNCHANGED <<cli, platform, cwd, dir, routes, calls, snap, buf, reads,
                 writes, hookErr, log, input>>

\* fs.writeFile of task i fails
BaseWriteFail(i) ==
  /\ pc[i] = "writing"
  /\ BaseCatch(i, [syscall |-> "write", path |-> PathChars(BasePath(i))])
  /\ UNCHANGED <<cli, platform, cwd, dir, routes, fs, calls, snap, buf, reads,
                 writes, input>>

BaseNext ==
  \/ BaseBuildDone
  \/ \E i \in Tasks : BaseReadOk(i)
  \/ \E i \in Tasks : BaseReadFail(i)
  \/ \E i \in Tasks : BaseWriteOk(i)
  \/ \E i \in Tasks : BaseWriteFail(i)

BaseSpec == BaseInit /\ [][BaseNext]_vars

TypeOK ==
  /\ platform \in Platforms
  /\ calls \in 0..MaxCalls
  /\ hook \in {"idle", "pending", "resolved", "rejected"}
  /\ \A i \in Tasks :
       pc[i] \in {"idle", "reading", "writing", "fulfilled", "rejected",
                 "caught"}

(***************************************************************************)
(* Vocabulary of the properties.  Under RwSpec the single document holds   *)
(* one reference, built from input; these definitions read the reference   *)
(* back from the file the hook wrote.                                      *)
(***************************************************************************)
RwFile == TaskFile(1)
InputDoc == MakeDoc(input.kind, input.value, input.hash)
OutText == fs[RwFile].text
AttrKinds == {"href", "src", "to"}

\* the current invocation has read the document as emitted and has written
\* its rewrite
RewroteInput ==
  /\ input.kind # "none"
  /\ calls >= 1
  /\ pc[1] = "fulfilled"
  /\ snap[calls].fs[RwFile].text = InputDoc

\* the document with its reference value replaced by v
Expected(v) == MakeDoc(input.kind, v, input.hash)

OpenLen ==
  (IF input.hash THEN Len(Signature) ELSE 0) + Len(KindName(input.kind)) + 2
CloseLen == IF input.kind = "import" THEN 2 ELSE 1

\* the value of the reference in the written document
OutValue == SubSeq(OutText, OpenLen + 1, Len(OutText) - CloseLen)

\* the written document is the emitted one with only the value replaced
OutFramed == OutText = Expected(OutValue)

\* the classes of values the properties speak of
CleanedValue == StripLeadingSlashes(input.value)
EndsInAssetExtension(v) ==
  \E e \in {<<"j","s">>, <<"c","s","s">>, <<"p","n","g">>, <<"j","p","g">>,
            <<"j","p","e","g">>, <<"g","i","f">>, <<"s","v","g">>,
            <<"i","c","o">>} : EndsWith(v, <<".">> \o e)
InAstroDirectory(v) == StartsWith(v, <<"_","a","s","t","r","o","/">>)
IsRelativeValue(v) ==
  StartsWith(v, <<".","/">>) \/ StartsWith(v, <<".",".","/">>)
IsHashRouteValue(v) ==
  StartsWith(v, <<"#","/">>) \/ StartsWith(v, <<"/","#","/">>)
HasQuote(v) == \E k \in 1..Len(v) : v[k] \in {"\"", "'"}
\* a page path: segments of letters separated by single slashes
IsPagePath(p) ==
  /\ p # <<>>
  /\ \A k \in 1..Len(p) : p[k] \in LowerChars \cup {"/"}
  /\ p[1] # "/"
  /\ p[Len(p)] # "/"
  /\ \A k \in 1..(Len(p) - 1) : ~(p[k] = "/" /\ p[k + 1] = "/")
DirText == PathChars(dir)
\* the construct is one the scan recognizes (a hydrate marker has a
\* non-empty value without quote characters)
IsReference ==
  /\ input.kind \in {"href", "src", "to", "hydrate", "import"}
  /\ input.kind = "hydrate" => (input.value # <<>> /\ ~HasQuote(input.value))
\* the value without its leading and trailing slashes
RECURSIVE TrimSlashes(_)
TrimSlashes(v) ==
  IF v # <<>> /\ v[1] = "/" THEN TrimSlashes(SubSeq(v, 2, Len(v)))
  ELSE IF v # <<>> /\ v[Len(v)] = "/"
  THEN TrimSlashes(SubSeq(v, 1, Len(v) - 1))
  ELSE v

\* C1: applying the rewrite to an already rewritten document changes
\* nothing: when an invocation that resolved is followed by a second one,
\* the text the second one writes is the text it read.
C1_Idempotent ==
  (/\ input.kind # "none"
   /\ calls >= 2
   /\ snap[calls].before = "resolved"
   /\ pc[1] = "fulfilled")
  => OutText = snap[calls].fs[RwFile].text

\* C2: an href/src/to value starting with '#/' or '/#/' is written back as
\* it was, or with its single leading '/' removed, whatever follows.
C2_HashPreserved ==
  (/\ RewroteInput
   /\ input.kind \in AttrKinds
   /\ IsHashRouteValue(input.value))
  => \/ OutText = Expected(input.value)
     \/ /\ Head(input.value) = "/"
        /\ OutText = Expected(Tail(input.value))

C4_AstroShape ==
  (/\ RewroteInput
   /\ input.kind \in {"src", "href", "hydrate", "import"}
   /\ StartsWith(input.value, <<"/","_","a","s","t","r","o","/">>))
  => OutText = Expected(<<".","/","_","a","s","t","r","o","/">>
                          \o SubSeq(input.value, 9, Len(input.value)))

\* C5: in a document without hash routing, href="/<p>" with a page path <p>
\* becomes file://<outputRoot>/<p>/index.html and href="/" becomes
\* file://<outputRoot>/index.html, <outputRoot> being the hook's dir.
C5_PageLocator ==
  (/\ RewroteInput
   /\ input.kind = "href"
   /\ ~input.hash
   /\ input.value # <<>>
   /\ Head(input.value) = "/"
   /\ (input.value = <<"/">> \/ IsPagePath(Tail(input.value))))
  => OutText =
       Expected(<<"f","i","l","e",":","/","/">> \o DirText
                  \o (IF input.value = <<"/">> THEN <<>> ELSE input.value)
                  \o <<"/","i","n","d","e","x",".","h","t","m","l">>)

\* C6: in a document without hash routing, a page link ending in '/' becomes
\* a locator ending in that link followed by index.html, with one slash
\* before index.html, and a link ending in '.html' becomes a locator ending
\* in that link, with no index.html appended.
C6_DirAndHtmlTargets ==
  (/\ RewroteInput
   /\ input.kind \in AttrKinds
   /\ ~input.hash
   /\ Len(input.value) >= 3
   /\ Head(input.value) = "/")
  => /\ (/\ input.value[Len(input.value)] = "/"
         /\ IsPagePath(SubSeq(input.value, 2, Len(input.value) - 1)))
        => /\ OutFramed
           /\ StartsWith(OutValue, <<"f","i","l","e",":","/","/">>)
           /\ EndsWith(OutValue, input.value
                         \o <<"i","n","d","e","x",".","h","t","m","l">>)
     /\ (/\ EndsWith(input.value, <<".","h","t","m","l">>)
         /\ IsPagePath(SubSeq(input.value, 2, Len(input.value) - 5)))
        => /\ OutFramed
           /\ StartsWith(OutValue, <<"f","i","l","e",":","/","/">>)
           /\ EndsWith(OutValue, input.value)

\* the values C7 speaks of: not already relative, not an asset, not already
\* a hash route
IsPlainValue ==
  /\ ~IsRelativeValue(input.value)
  /\ ~InAstroDirectory(CleanedValue)
  /\ ~EndsInAssetExtension(CleanedValue)
  /\ ~IsHashRouteValue(input.value)

C8_RelativeUntouched ==
  (/\ RewroteInput
   /\ IsReference
   /\ IsRelativeValue(input.value))
  => OutText = InputDoc

(***************************************************************************)
(* Properties of the concurrent hook, under Spec.                          *)
(***************************************************************************)
\* every task of the current invocation has finished
Quiescent ==
  /\ calls >= 1
  /\ \A i \in Tasks : pc[i] \in {"fulfilled", "rejected"}

\* task i was rejected by its read: it never called fs.writeFile
ReadFailed(i) == pc[i] = "rejected" /\ writes[i] = <<>>

\* C9: a route without distURL causes no read and no write, the other
\* routes of the call are still read (and written when their task
\* fulfils), and a call in which no route has an output location, an empty
\* route list included, resolves without touching the file system.
C9_SkipsAbsent ==
  /\ \A i \in Tasks :
       ~routes[i].present =>
         /\ reads[i] = <<>>
         /\ writes[i] = <<>>
         /\ pc[i] \in {"idle", "fulfilled"}
  /\ calls >= 1 =>
       \A i \in Tasks :
         routes[i].present =>
           /\ Len(reads[i]) = 1
           /\ pc[i] = "fulfilled" => Len(writes[i]) = 1
  /\ (calls >= 1 /\ \A i \in Tasks : ~routes[i].present) =>
       /\ hook = "resolved"
       /\ fs = snap[calls].fs
       /\ log = <<>>

C9_Witness ==
  /\ hook = "resolved"
  /\ \E i, j \in Tasks :
       /\ ~routes[i].present
       /\ routes[j].present
       /\ pc[i] = "fulfilled"
       /\ pc[j] = "fulfilled"
       /\ fs[TaskFile(j)] # snap[calls].fs[TaskFile(j)]

\* C10: when A and B are the routes with an output location, naming
\* different files, and A's read fails while B's read and write succeed,
\* then once both tasks have finished B's file holds the rewrite of what it
\* held, A's file is unchanged, and the hook has rejected with the error of
\* A's read, whose path is A's and not B's.
C10_Independent ==
  \A a, b \in Tasks :
    (/\ Quiescent
     /\ a # b
     /\ routes[a].present
     /\ routes[b].present
     /\ \A k \in Tasks \ {a, b} : ~routes[k].present
     /\ TaskFile(a) # TaskFile(b)
     /\ ReadFailed(a)
     /\ pc[b] = "fulfilled")
    => /\ fs[TaskFile(b)] =
            FileWith(updatedContent(snap[calls].fs[TaskFile(b)].text,
                                    PathChars(TaskPath(b)), distPath(cwd)))
       /\ fs[TaskFile(a)] = snap[calls].fs[TaskFile(a)]
       /\ hook = "rejected"
       /\ hookErr = [syscall |-> "read", path |-> PathChars(TaskPath(a))]
       /\ hookErr.path # PathChars(TaskPath(b))
       /\ log = <<[path |-> PathChars(TaskPath(a)), error |-> hookErr]>>

C10_Witness ==
  \E a, b \in Tasks :
    /\ Quiescent
    /\ a # b
    /\ routes[a].present
    /\ routes[b].present
    /\ TaskFile(a) # TaskFile(b)
    /\ ReadFailed(a)
    /\ pc[b] = "fulfilled"
    /\ hook = "rejected"
    /\ fs[TaskFile(b)] # snap[calls].fs[TaskFile(b)]

\* the documents whose task failed in the current invocation
Failed == {i \in Tasks : pc[i] = "rejected"}

\* C11: when the hook has rejected, no task of the same call is still
\* pending: every sibling has finished or failed before the rejection is
\* delivered.
C11_AggregateThenFail ==
  hook = "rejected" => \A i \in Tasks : pc[i] \in {"fulfilled", "rejected"}

\* the (path, cause) pairs the hook's rejection carries
Carried == IF hook = "rejected" THEN {hookErr} ELSE {}

\* C12: when two or more documents fail in one call, every failing path is
\* logged and the hook's rejection carries the path and cause of every
\* failing document.
C12_ErrorAggregation ==
  (Quiescent /\ Cardinality(Failed) >= 2)
  => /\ \A i \in Failed :
          \E k \in 1..Len(log) : log[k].path = PathChars(TaskPath(i))
     /\ \A i \in Failed :
          \E e \in Carried : e.path = PathChars(TaskPath(i))

\* no read and no write of the current invocation has failed
NoFailure == calls >= 1 /\ log = <<>> /\ Failed = {}

\* C13: in a call without failure every route with an output location is
\* read exactly once and written at most once, exactly once when its task
\* has finished, and the hook resolves only when every such task has had
\* its write completed.
C13_OnePassFanIn ==
  NoFailure =>
    /\ \A i \in Tasks :
         routes[i].present =>
           /\ Len(reads[i]) = 1
           /\ Len(writes[i]) <= 1
           /\ pc[i] = "fulfilled" => Len(writes[i]) = 1
           /\ pc[i] = "reading" => Len(writes[i]) = 0
    /\ hook = "resolved" =>
         \A i \in Tasks :
           routes[i].present => pc[i] = "fulfilled" /\ Len(writes[i]) = 1
    /\ (\A i \in Tasks : pc[i] = "fulfilled") => hook = "resolved"

C13_Witness ==
  /\ NoFailure
  /\ hook = "resolved"
  /\ \E i, j \in Tasks :
       /\ i # j
       /\ routes[i].present
       /\ routes[j].present
       /\ TaskFile(i) # TaskFile(j)
       /\ Len(writes[i]) = 1
       /\ Len(writes[j]) = 1
       /\ fs[TaskFile(i)] # snap[calls].fs[TaskFile(i)]
       /\ fs[TaskFile(j)] # snap[calls].fs[TaskFile(j)]

\* the file at the output location of route i
OutputFile(i) == Resolve(platform, cwd, routes[i].pathname)

\* C14: for every route with an output location, POSIX or Windows-drive,
\* every path the hook reads or writes denotes the file at that output
\* location, and no file is created or deleted.
C14_InPlace ==
  /\ \A i \in Tasks :
       routes[i].present =>
         /\ \A k \in 1..Len(reads[i]) :
              FileOf(platform, cwd, reads[i][k]) = OutputFile(i)
         /\ \A k \in 1..Len(writes[i]) :
              /\ FileOf(platform, cwd, writes[i][k]) = OutputFile(i)
              /\ writes[i][k] = reads[i][1]
  /\ calls >= 1 =>
       \A f \in DOMAIN fs : fs[f].exists = snap[1].fs[f].exists

(***************************************************************************)
(* Properties of the command line, under CliSpec.                          *)
(***************************************************************************)
\* positions of the trace
Steps == 1..Len(cli.trace)
IsAnswer(k, prompt, answer) ==
  cli.trace[k] = [kind |-> "answer", at |-> "", what |-> prompt \o ":" \o answer]
IsPrint(k, message) ==
  cli.trace[k] = [kind |-> "log", at |-> "", what |-> message]
\* a template copy, a file write or a rename
IsChange(k) == cli.trace[k].kind \in {"cp", "write", "rename"}
IsInstall(k) == cli.trace[k].kind = "exec"
Ended == cli.result \in {"resolved", "rejected", "exited"}

\* C15: when the add-Electron flow has completed on an Astro project whose
\* package.json had no main field, the main field of package.json is
\* 'dist-electron/main.js', whether or not the project uses TypeScript.
C15_MainField ==
  (/\ cli.entry \in {"bin", "src"}
   /\ cli.before.pkg.exists
   /\ cli.before.pkg.astro
   /\ cli.before.pkg.main = ""
   /\ cli.result = "resolved"
   /\ \E k \in Steps : IsAnswer(k, "addElectron", "yes"))
  => cli.pkg.main = "dist-electron/main.js"

\* C16: when the user answers no to 'Directory already exists. Overwrite?',
\* 'Operation cancelled' is printed and no template copy, file write or
\* rename follows the answer.
C16_OverwriteRefusal ==
  \A k \in Steps :
    IsAnswer(k, "overwrite", "no") =>
      /\ \E j \in Steps : j > k /\ IsPrint(j, "Operation cancelled")
      /\ \A j \in Steps : j > k => ~IsChange(j)
      /\ Ended
      /\ cli.disk = cli.before.disk

C16_Witness ==
  /\ cli.entry = "create"
  /\ Ended
  /\ \E k \in Steps : IsAnswer(k, "overwrite", "no")
  /\ File("target", "") \in cli.before.disk

\* the name without one leading '@scope/'
Unscoped(n) ==
  LET k == IndexFrom(n, 1, <<"/">>)
  IN IF n # <<>> /\ n[1] = "@" /\ k # 0 THEN SubSeq(n, k + 1, Len(n)) ELSE n

IsValidName(n) ==
  LET u == Unscoped(n)
  IN /\ u # <<>>
     /\ \A k \in 1..Len(u) :
          u[k] \in LowerChars \cup DigitChars \cup {"-", "_"}
     /\ u[1] \notin {"-", "_", "."}
     /\ Len(u) <= 214

\* createNewProject has been called with cli.projName
CreateCalled ==
  \/ cli.entry = "create" /\ cli.pc # "start"
  \/ cli.entry = "bin" /\ cli.projName # <<>>

\* C17: validateProjectName is true exactly for the names that, without one
\* optional '@scope/' prefix, are non-empty, made of lowercase letters,
\* digits, '-' and '_', not starting with '-', '_' or '.', and at most 214
\* characters long; createNewProject called with any other name rejects
\* with 'Invalid project name' before it has done anything.
C17_NameValidation ==
  /\ validateProjectName(<<"m","y","-","p","r","o","j","e","c","t">>)
  /\ validateProjectName(<<"p","r","o","j","e","c","t","1","2","3">>)
  /\ validateProjectName(
       <<"@","s","c","o","p","e","/","p","r","o","j","e","c","t">>)
  /\ ~validateProjectName(<<"i","n","v","a","l","i","d","/">>)
  /\ ~validateProjectName(<<>>)
  /\ ~validateProjectName(<<".">>)
  /\ CreateCalled =>
       /\ validateProjectName(cli.projName) = IsValidName(cli.projName)
       /\ ~IsValidName(cli.projName) =>
            /\ cli.result = "rejected"
            /\ cli.error.message = "Invalid project name"
            /\ cli.trace = <<>>
            /\ cli.disk = cli.before.disk
       /\ (cli.result = "rejected"
             /\ cli.error.message = "Invalid project name") =>
            ~IsValidName(cli.projName)

C17_Witness ==
  /\ cli.entry = "create"
  /\ Len(cli.projName) = 215
  /\ cli.result = "rejected"
  /\ cli.error.message = "Invalid project name"
  /\ cli.trace = <<>>

\* C18: when a new JavaScript project is created, the conversion renames
\* and rewrites the electron files of the new project directory, never
\* files under the working directory.
C18_ConvertsTarget ==
  (CreateCalled /\ cli.lang = "javascript") =>
    /\ \A k \in Steps :
         cli.trace[k].kind = "rename" => cli.trace[k].at = "target"
    /\ \A k \in Steps :
         (cli.trace[k].kind \in {"read", "write"}
            /\ cli.trace[k].what = "electron/main.js")
         => cli.trace[k].at = "target"
    /\ cli.result = "resolved" =>
         /\ File("target", "electron/main.js") \in cli.disk
         /\ File("target", "electron/preload.js") \in cli.disk
         /\ File("target", "electron/main.ts") \notin cli.disk
         /\ File("target", "electron/preload.ts") \notin cli.disk
         /\ {f \in cli.disk : f.at = "cwd"}
              = {f \in cli.before.disk : f.at = "cwd"}

\* the project in which main is run has everything in place
FullyConfigured ==
  LET p == cli.before.pkg
      d == cli.before.disk
      js == cli.entry = "bin" /\ ~p.typescript
  IN /\ cli.entry \in {"bin", "src"}
     /\ p.exists
     /\ p.astro
     /\ p.electron
     /\ cli.before.config = "electron"
     /\ p.main # ""
     /\ File("cwd", "electron") \in d
     /\ File("cwd", IF js THEN "electron/main.js" ELSE "electron/main.ts") \in d
     /\ File("cwd", IF js THEN "electron/preload.js"
                    ELSE "electron/preload.ts") \in d

\* C19: in a fully configured project main prints 'Astro + Electron project
\* detected!' and resolves without any prompt, copy, write, rename or
\* installation, leaving package.json, the configuration and the files as
\* they were.
C19_Untouched ==
  (FullyConfigured /\ cli.pc # "start") =>
    /\ cli.result = "resolved"
    /\ \E k \in Steps : IsPrint(k, "Astro + Electron project detected!")
    /\ \A k \in Steps : cli.trace[k].kind = "log"
    /\ cli.pkg = cli.before.pkg
    /\ cli.config = cli.before.config
    /\ cli.disk = cli.before.disk

C19_Witness ==
  /\ FullyConfigured
  /\ cli.before.pkg.typescript
  /\ cli.result = "resolved"
  /\ Len(cli.trace) = 2

\* a prompt of main was force-closed at step k
IsClosed(k) ==
  \E prompt \in {"projectName", "packageManager", "language", "overwrite",
                 "addElectron"} : IsAnswer(k, prompt, "closed")

\* C20: when a prompt shown during main is force-closed, main prints
\* 'Operation cancelled', resolves, does not exit with code 1, and no copy,
\* write or installation follows the cancellation.
C20_GracefulCancel ==
  (cli.entry \in {"bin", "src"} /\ cli.pc \in {"done", "install"}) =>
    \A k \in Steps :
      IsClosed(k) =>
        /\ \E j \in Steps :
             /\ j > k
             /\ \/ IsPrint(j, "Operation cancelled")
                \/ IsPrint(j, "\nOperation cancelled")
        /\ cli.result = "resolved"
        /\ \A j \in Steps : cli.trace[j].kind # "exit"
        /\ \A j \in Steps : j > k => ~IsChange(j) /\ ~IsInstall(j)

\* the prompt was shown at step k
IsPrompt(k, prompt) ==
  cli.trace[k] = [kind |-> "prompt", at |-> "", what |-> prompt]

\* main has gone into project creation, past the point where the package
\* manager is settled: the language is asked for or the target is looked at
Creating ==
  /\ cli.entry \in {"bin", "src"}
  /\ \E k \in Steps :
       \/ IsPrompt(k, "language")
       \/ cli.trace[k] = [kind |-> "access", at |-> "target", what |-> ""]

\* C21: during project creation 'Which package manager would you like to
\* use?' is shown exactly when the detected package manager is npm; another
\* detected manager is used without the prompt.
C21_PackageManagerPrompt ==
  Creating =>
    ((\E k \in Steps : IsPrompt(k, "packageManager"))
       <=> cli.before.pm = "npm")

(***************************************************************************)
(* Properties of the base-path variant of the hook, under BaseSpec.        *)
(***************************************************************************)
\* the task of route i was ended by its catch block
Caughts == {i \in Tasks : pc[i] = "caught"}

\* every task of the current call has ended
BaseQuiescent ==
  /\ calls >= 1
  /\ \A i \in Tasks : pc[i] \in {"fulfilled", "caught"}

\* the replacement of the base path in the text t of the file at locator l
BaseRewritten(l, t) ==
  ReplaceAllBaseFrom(t, 1,
    LET rel == PathChars(Relative(platform, cwd,
                                  [l EXCEPT !.segs = SubSeq(@, 1, Len(@) - 1)],
                                  dir))
    IN IF rel = <<>> THEN <<".">> ELSE rel)

\* C22: in the base-path variant a failed read or write of one route is
\* logged with 'Error processing route' and the route's locator, the hook
\* never rejects and resolves once every task has ended, the route whose
\* read failed gets no write, and every other route with a distURL is read,
\* and written when its task ends without failure.
C22_ErrorsSwallowed ==
  /\ hook # "rejected"
  /\ hookErr = [syscall |-> "none", path |-> <<>>]
  /\ BaseQuiescent => hook = "resolved"
  /\ Len(log) = Cardinality(Caughts)
  /\ \A i \in Caughts :
       \E k \in 1..Len(log) :
         /\ log[k].message = "Error processing route"
         /\ log[k].path = PathChars(routes[i].pathname)
  /\ \A i \in Caughts :
       (\E k \in 1..Len(log) : log[k].error.syscall = "read"
                                 /\ log[k].path = PathChars(routes[i].pathname)
                                 /\ \A j \in Caughts \ {i} :
                                      routes[j] # routes[i])
       => writes[i] = <<>>
  /\ calls >= 1 =>
       \A j \in Tasks :
         routes[j].present =>
           /\ Len(reads[j]) = 1
           /\ (BaseQuiescent
                 /\ pc[j] = "fulfilled"
                 /\ \A k \in Tasks \ {j} : routes[k] # routes[j])
              => fs[Resolve(platform, cwd, routes[j].pathname)].text
                   = BaseRewritten(routes[j].pathname,
                       snap[calls].fs[Resolve(platform, cwd,
                                              routes[j].pathname)].text)

C22_Witness ==
  /\ BaseQuiescent
  /\ hook = "resolved"
  /\ \E i, j \in Tasks :
       /\ i # j
       /\ routes[i] # routes[j]
       /\ pc[i] = "caught"
       /\ writes[i] = <<>>
       /\ pc[j] = "fulfilled"
       /\ Len(writes[j]) = 1
       /\ fs[Resolve(platform, cwd, routes[j].pathname)]
            # snap[calls].fs[Resolve(platform, cwd, routes[j].pathname)]

(***************************************************************************)
(* Further properties of the command line, under CliSpec.                  *)
(***************************************************************************)
\* C23: when the user answers no to 'Would you like to add/configure
\* Electron', 'Operation cancelled' is printed and the run resolves without
\* any electron-file copy, configuration or package.json write, rename or
\* installation: package.json, the configuration and the files are as they
\* were.
C23_DeclineChangesNothing ==
  \A k \in Steps :
    IsAnswer(k, "addElectron", "no") =>
      /\ cli.result = "resolved"
      /\ \E j \in Steps : j > k /\ IsPrint(j, "Operation cancelled")
      /\ \A j \in Steps :
           /\ ~IsChange(j)
           /\ ~IsInstall(j)
           /\ cli.trace[j].kind \notin {"read", "exit", "error"}
      /\ cli.pkg = cli.before.pkg
      /\ cli.config = cli.before.config
      /\ cli.disk = cli.before.disk

C23_Witness ==
  /\ cli.entry = "bin"
  /\ cli.before.pkg.astro
  /\ ~cli.before.pkg.electron
  /\ cli.before.pkg.main = ""
  /\ cli.result = "resolved"
  /\ \E k \in Steps : IsAnswer(k, "addElectron", "no")

\* the add-Electron confirmation was answered yes
Confirmed == \E k \in Steps : IsAnswer(k, "addElectron", "yes")

\* what the project had before the run
FilesDetected ==
  LET d == cli.before.disk
      js == cli.entry = "bin" /\ ~cli.before.pkg.typescript
  IN /\ File("cwd", "electron") \in d
     /\ File("cwd", IF js THEN "electron/main.js" ELSE "electron/main.ts") \in d
     /\ File("cwd", IF js THEN "electron/preload.js"
                    ELSE "electron/preload.ts") \in d
MainPresent == cli.before.pkg.main # ""
ElectronDetected ==
  cli.before.pkg.electron /\ cli.before.config = "electron"

\* the three steps, as they show in the trace
IsCopy(k) == cli.trace[k] = [kind |-> "cp", at |-> "cwd", what |-> "electron"]
IsMainWrite(k) == IsPrint(k, "Added main field to package.json")
IsFailure(k) == cli.trace[k].kind = "error"

ValueIn(text, hash) ==
  SubSeq(text,
         (IF hash THEN Len(Signature) ELSE 0) + Len(KindName(input.kind)) + 3,
         Len(text) - CloseLen)

\* the rewrite of the document that differs from the emitted one only in
\* its classification: the same reference with the signature added or
\* removed
Twin ==
  updatedContent(MakeDoc(input.kind, input.value, ~input.hash),
                 PathChars(TaskPath(1)), distPath(cwd))

\* C25: for a reference whose cleaned value starts with '_astro/' or ends
\* in an asset extension, and for every hydrate marker and dynamic import,
\* the rewritten value is the same in the hash-routing document and in the
\* document without hash routing.
C25_AssetsIgnoreHashFlag ==
  (/\ RewroteInput
   /\ IsReference
   /\ \/ input.kind \in {"hydrate", "import"}
      \/ InAstroDirectory(CleanedValue)
      \/ EndsInAssetExtension(CleanedValue))
  => /\ OutFramed
     /\ Twin = MakeDoc(input.kind, ValueIn(Twin, ~input.hash), ~input.hash)
     /\ OutValue = ValueIn(Twin, ~input.hash)

C25_Witness ==
  /\ RewroteInput
  /\ input.kind = "href"
  /\ input.hash
  /\ input.value = <<"/","a","/","a",".","j","s">>
  /\ OutValue = <<".","/","a","/","a",".","j","s">>
  /\ ValueIn(Twin, FALSE) = OutValue

\* C26: an attribute whose name only ends with href, src or to, such as
\* data-src="/x" or goto="/x", keeps its value: the document is written back
\* as it was read.
C26_AttributeAnchored ==
  (/\ RewroteInput
   /\ input.kind \in {"data-src", "goto"})
  => OutText = InputDoc

\* the text after the last slash of v
RECURSIVE LastSegment(_)
LastSegment(v) ==
  LET k == IndexFrom(v, 1, <<"/">>)
  IN IF k = 0 \/ k > Len(v) THEN v ELSE LastSegment(SubSeq(v, k + 1, Len(v)))

\* the segment is a file name with an extension: letters, a dot, letters
HasExtension(seg) ==
  \E k \in 2..(Len(seg) - 1) :
    /\ seg[k] = "."
    /\ \A m \in 1..Len(seg) : m # k => seg[m] \in LowerChars

\* C27: in a document without hash routing, a link '/<dirs>/<name>.<ext>'
\* whose extension is neither 'html' nor in the asset list is rewritten to a
\* file:// locator that ends in the link itself: no '/index.html' is
\* appended.
C27_ExtensionKept ==
  (/\ RewroteInput
   /\ input.kind \in AttrKinds
   /\ ~input.hash
   /\ input.value # <<>>
   /\ Head(input.value) = "/"
   /\ ~InAstroDirectory(CleanedValue)
   /\ ~EndsInAssetExtension(CleanedValue)
   /\ ~EndsWith(input.value, <<".","h","t","m","l">>)
   /\ HasExtension(LastSegment(input.value)))
  => /\ OutFramed
     /\ StartsWith(OutValue, <<"f","i","l","e",":","/","/">>)
     /\ EndsWith(OutValue, input.value)
     /\ ~EndsWith(OutValue, <<"/","i","n","d","e","x",".","h","t","m","l">>)

\* the document of two links, with x and y as their values
PairText(x, y) ==
  LET sig == IF input.hash THEN input.signature ELSE <<>>
      first == <<"h","r","e","f","=","\"">> \o x \o <<"\"">>
      second == <<"t","o","=","\"">> \o y \o <<"\"">>
  IN IF input.place = "before" THEN sig \o first \o <<" ">> \o second
     ELSE IF input.place = "between" THEN first \o <<" ">> \o sig \o second
     ELSE first \o <<" ">> \o second \o <<" ">> \o sig

\* the current invocation has read the document of two links as emitted
\* and has written its rewrite
RewrotePair ==
  /\ input.kind = "pair"
  /\ calls >= 1
  /\ pc[1] = "fulfilled"
  /\ snap[calls].fs[RwFile].text = PairText(input.value, input.second)

\* the values of the two links in the written document
PairSig == IF input.hash THEN input.signature ELSE <<>>
PairOpen == IF input.place = "before" THEN Len(PairSig) ELSE 0
PairClose == IF input.place = "after" THEN Len(PairSig) + 1 ELSE 0
OutFirst ==
  SubSeq(OutText, PairOpen + 7, IndexFrom(OutText, PairOpen + 7, <<"\"">>) - 1)
OutSecond ==
  LET q == IndexFrom(OutText, PairOpen + 7, <<"\"">>)
      b == q + 2 + (IF input.place = "between" THEN Len(PairSig) ELSE 0) + 4
  IN SubSeq(OutText, b, Len(OutText) - PairClose - 1)

\* the classification of the document: a signature in its text, or
\* 'router' in its path
Classified ==
  \/ input.hash
  \/ Includes(PathChars(routes[1].pathname), <<"r","o","u","t","e","r">>)

\* C28: the hash-routing flag of a document is true exactly when its text
\* as read holds a signature, wherever it stands, or its path contains
\* 'router', and both plain links of the document are rewritten under that
\* one value: both to '#/' routes when it is true, both to file:// locators
\* when it is false.
C28_OneFlagPerDocument ==
  RewrotePair =>
    /\ OutText = PairText(OutFirst, OutSecond)
    /\ Classified =>
         /\ OutFirst = <<"#", "/">> \o TrimSlashes(input.value)
         /\ OutSecond = <<"#", "/">> \o TrimSlashes(input.second)
    /\ ~Classified =>
         /\ StartsWith(OutFirst, <<"f","i","l","e",":","/","/">>)
         /\ StartsWith(OutSecond, <<"f","i","l","e",":","/","/">>)

C28_Witness ==
  /\ RewrotePair
  /\ input.hash
  /\ input.place = "after"
  /\ input.value = <<"/","a">>
  /\ input.second = <<"/","b","/">>
  /\ ~Includes(PathChars(routes[1].pathname), <<"r","o","u","t","e","r">>)
  /\ OutFirst = <<"#","/","a">>
  /\ OutSecond = <<"#","/","b">>

\* the value starts with a URL scheme: letters followed by a colon
HasScheme(v) ==
  \E k \in 2..Len(v) :
    /\ v[k] = ":"
    /\ \A m \in 1..(k - 1) : v[m] \in LowerChars

\* C29: an href/src/to value that carries a URL scheme, such as
\* 'https://docs.astro.build/', is written back unchanged, in a hash-routing
\* document and in one without hash routing.
C29_AbsoluteUrlsKept ==
  (/\ RewroteInput
   /\ input.kind \in AttrKinds
   /\ HasScheme(input.value))
  => OutText = InputDoc

(***************************************************************************)
(* Further properties of the concurrent hook, under Spec.                  *)
(***************************************************************************)
\* C30: when two routes of one call name the same output file and both
\* tasks have fulfilled, the file holds the single rewrite of the text it
\* held when the call started, whatever the order of the tasks' reads and
\* writes.
C30_InterleavingIndependent ==
  \A a, b \in Tasks :
    (/\ Quiescent
     /\ a # b
     /\ routes[a].present
     /\ routes[b].present
     /\ TaskFile(a) = TaskFile(b)
     /\ \A k \in Tasks : routes[k].present => TaskFile(k) = TaskFile(a)
     /\ pc[a] = "fulfilled"
     /\ pc[b] = "fulfilled")
    => fs[TaskFile(a)].text =
         updatedContent(snap[calls].fs[TaskFile(a)].text,
                        PathChars(TaskPath(a)), distPath(cwd))

====
